---- MODULE Spec2Model ----
(***************************************************************************)
(* hackrf-rs: the safe wrapper (src/src/lib.rs) over the libhackrf FFI     *)
(* surface (src/src/ffi.rs).  The application thread calls the wrapper     *)
(* operations; the driver thread invokes the rx_cb / tx_cb trampolines.    *)
(* The native library is a stub: every native call returns a status drawn  *)
(* from the status constants of ffi.rs.                                    *)
(***************************************************************************)
EXTENDS Integers, Sequences, FiniteSets, TLC

\* ---------------------------------------------------------------- bounds
MaxStarts == 2
MaxCalls == 2

\* ------------------------------------------------- ffi.rs status constants
HACKRF_SUCCESS == 0
HACKRF_TRUE == 1
HACKRF_ERROR_INVALID_PARAM == -2
HACKRF_ERROR_NOT_FOUND == -5
HACKRF_ERROR_BUSY == -6
HACKRF_ERROR_NO_MEM == -11
HACKRF_ERROR_LIBUSB == -1000
HACKRF_ERROR_THREAD == -1001
HACKRF_ERROR_STREAMING_THREAD_ERR == -1002
HACKRF_ERROR_STREAMING_STOPPED == -1003
HACKRF_ERROR_STREAMING_EXIT_CALLED == -1004
HACKRF_ERROR_OTHER == -9999

\* Every status of ffi.rs; what hackrf_is_streaming may return.
AllStatus ==
    { HACKRF_SUCCESS, HACKRF_TRUE, HACKRF_ERROR_INVALID_PARAM,
      HACKRF_ERROR_NOT_FOUND, HACKRF_ERROR_BUSY, HACKRF_ERROR_NO_MEM,
      HACKRF_ERROR_LIBUSB, HACKRF_ERROR_THREAD,
      HACKRF_ERROR_STREAMING_THREAD_ERR, HACKRF_ERROR_STREAMING_STOPPED,
      HACKRF_ERROR_STREAMING_EXIT_CALLED, HACKRF_ERROR_OTHER }

\* What the stubbed native layer returns from an ordinary call.
CallStatus ==
    { HACKRF_SUCCESS, HACKRF_ERROR_BUSY, HACKRF_ERROR_LIBUSB }

\* Documented gain maxima (the asserts of the three gain setters).
LnaMax == 40
VgaMax == 62
TxvgaMax == 47

\* ---------------------------------------------------------- Result values
Ok(v) == [tag |-> "Ok", val |-> v]

\* Drop::drop and a panicking call hand nothing back to the application.
NoResult == [tag |-> "None"]
Panic == [tag |-> "Panic"]

hackrf_error_name(err) == <<"hackrf_error_name", err>>

hackrf_error(err) == [errno |-> err, errstr |-> hackrf_error_name(err)]

Err(err) == [tag |-> "Err", error |-> hackrf_error(err)]

\* The `match status { HACKRF_SUCCESS => Ok(()), err => Err(hackrf_error(err)) }`
\* that ends every plain wrapper operation.
unit_result(status) ==
    IF status = HACKRF_SUCCESS THEN Ok("unit") ELSE Err(status)

\* One native call as a capturing stub sees it.
Call(fn, arg, status) == [fn |-> fn, arg |-> arg, status |-> status]

\* ------------------------------------------------------------------ state
VARIABLES
    dev,          \* the application's HackRFDevice: who owns it, and its ptr
    closeCalls,   \* native hackrf_close calls issued on the handle
    lastOp,       \* the wrapper operation this step performed: native calls, result
    panicked,     \* an assert! of the application thread failed
    crashed,      \* the process died in a trampoline
    drv,          \* the native device: streaming mode and its two context slots
    starts,       \* one entry per start_rx / start_tx call: closure and Box
    unconfirmed,  \* a stream was started and its cessation is not yet confirmed
    delivered,    \* trampoline invocations the driver made in the current stream
    lastCb        \* the trampoline invocation this step performed

\* lastOp and lastCb describe the step just taken and are cleared by every
\* other step: an invariant over them is a statement about each operation and
\* each trampoline invocation.
vars ==
    << dev, closeCalls, lastOp, panicked, crashed, drv, starts,
       unconfirmed, delivered, lastCb >>

\* Buffer lengths the driver hands to a trampoline (libhackrf uses 262144).
BufLens == {1, 2}

\* Gain arguments tried on a setter whose documented maximum is max: the
\* smallest value and both sides of the maximum.
GainInputs(max) == {0, max, max + 1}

\* ------------------------------------------------ opaque context tokens
\* A *mut c_void, by what it points at: nothing, the leaked
\* Box<&mut dyn FnMut> of start number id, or the closure of start number id.
NullCtx == [rep |-> "null", id |-> 0]
BoxCtx(k) == [rep |-> "box", id |-> k]
ThinCtx(k) == [rep |-> "thin", id |-> k]

\* hackrf_transfer as the driver fills it for one invocation.
Transfer(len, vlen) ==
    [ buffer_length |-> len, valid_length |-> vlen,
      rx_ctx |-> drv.rx_ctx, tx_ctx |-> drv.tx_ctx ]

NoCb ==
    [ kind |-> "none", bufLen |-> 0, view |-> 0, ctx |-> NullCtx, target |-> 0,
      calls |-> 0, ret |-> FALSE, code |-> 0, ub |-> "none" ]

NoOp == [op |-> "none", arg |-> 0, calls |-> << >>, result |-> NoResult]

IdleDrv ==
    [mode |-> "idle", stopping |-> FALSE, rx_ctx |-> NullCtx, tx_ctx |-> NullCtx]

Init ==
    /\ dev = [state |-> "none", ptr |-> 0]
    /\ closeCalls = 0
    /\ lastOp = NoOp
    /\ panicked = FALSE
    /\ crashed = FALSE
    /\ drv = IdleDrv
    /\ starts = << >>
    /\ unconfirmed = FALSE
    /\ delivered = 0
    /\ lastCb = NoCb

\* The application thread can make a call.
AppRuns == ~crashed /\ ~panicked

\* ---------------------------------------------------- device lifecycle
\* impl Drop for HackRFDevice: close unless ptr is null; the status is dropped.
drop_calls(ptr, status) ==
    IF ptr # 0 THEN << Call("hackrf_close", ptr, status) >> ELSE << >>

\* close(device): hackrf_close(device.ptr), then `device` goes out of scope at
\* the end of the function and Drop::drop runs on it.
close_calls(ptr, s1, s2) ==
    << Call("hackrf_close", ptr, s1) >> \o drop_calls(ptr, s2)

\* hackrf_close on the native device: a successful close ends any stream.
NativeClosed(calls) ==
    IF \E i \in 1..Len(calls) : calls[i].status = HACKRF_SUCCESS
    THEN [drv EXCEPT !.mode = "idle", !.stopping = FALSE]
    ELSE drv

\* open(): zeroed handle, hackrf_open fills ptr on success; on failure the
\* local handle is dropped with its ptr still null.  One handle is followed
\* from open() to its release; a failed open() can be tried again.
Open ==
    /\ AppRuns
    /\ dev.state = "none"
    /\ \E s \in CallStatus :
         LET ptr == IF s = HACKRF_SUCCESS THEN 1 ELSE 0 IN
         IF s = HACKRF_SUCCESS
         THEN /\ dev' = [state |-> "owned", ptr |-> ptr]
              /\ closeCalls' = 0
              /\ drv' = IdleDrv
              /\ lastOp' = [ op |-> "open", arg |-> 0,
                             calls |-> << Call("hackrf_open", 0, s) >>,
                             result |-> Ok("device") ]
         ELSE /\ lastOp' = [ op |-> "open", arg |-> 0,
                             calls |-> << Call("hackrf_open", 0, s) >>
                                         \o drop_calls(ptr, HACKRF_SUCCESS),
                             result |-> Err(s) ]
              /\ UNCHANGED << dev, closeCalls, drv >>
    /\ UNCHANGED << panicked, crashed, starts, unconfirmed, delivered >>
    /\ lastCb' = NoCb

Close ==
    /\ AppRuns
    /\ dev.state = "owned"
    /\ \E s1 \in CallStatus, s2 \in CallStatus :
         LET calls == close_calls(dev.ptr, s1, s2) IN
         /\ lastOp' = [ op |-> "close", arg |-> 0, calls |-> calls,
                        result |-> unit_result(s1) ]
         /\ closeCalls' = closeCalls + Len(calls)
         /\ drv' = NativeClosed(calls)
    /\ dev' = [dev EXCEPT !.state = "gone"]
    /\ UNCHANGED << panicked, crashed, starts, unconfirmed, delivered >>
    /\ lastCb' = NoCb

\* The scope owning the handle ends (also while a panic unwinds).
DropHandle ==
    /\ ~crashed
    /\ dev.state = "owned"
    /\ \E s \in CallStatus :
         LET calls == drop_calls(dev.ptr, s) IN
         /\ lastOp' = [op |-> "drop", arg |-> 0, calls |-> calls, result |-> NoResult]
         /\ closeCalls' = closeCalls + Len(calls)
         /\ drv' = NativeClosed(calls)
    /\ dev' = [dev EXCEPT !.state = "gone"]
    /\ UNCHANGED << panicked, crashed, starts, unconfirmed, delivered >>
    /\ lastCb' = NoCb

\* ------------------------------------------------------ streaming bridge
\* Box::new(callback) + Box::leak: the registration start_rx allocates.
NewBox(k) == [kind |-> "rx", live |-> TRUE, boxed |-> TRUE]

\* start_tx allocates nothing: the context is the caller's closure itself.
NewThin(k) == [kind |-> "tx", live |-> TRUE, boxed |-> FALSE]

\* hackrf_start_rx / hackrf_start_tx: the native layer rejects a start while a
\* stream is active.
StartStatus ==
    IF drv.mode = "idle" THEN CallStatus ELSE CallStatus \ {HACKRF_SUCCESS}

\* The entry start_rx leaves in `starts` once hackrf_start_rx returned `status`:
\* the leaked Box stays allocated on both arms of the match.
rx_registration(k, status) == NewBox(k)

StartRx ==
    /\ AppRuns
    /\ dev.state = "owned"
    /\ Len(starts) < MaxStarts
    /\ LET k == Len(starts) + 1
           ctx == BoxCtx(k)
       IN \E s \in StartStatus :
            /\ starts' = Append(starts, rx_registration(k, s))
            /\ lastOp' = [ op |-> "start_rx", arg |-> 0,
                           calls |-> << Call("hackrf_start_rx", k, s) >>,
                           result |-> unit_result(s) ]
            /\ IF s = HACKRF_SUCCESS
               THEN /\ drv' = [drv EXCEPT !.mode = "rx", !.stopping = FALSE,
                                          !.rx_ctx = ctx]
                    /\ unconfirmed' = TRUE
                    /\ delivered' = 0
               ELSE UNCHANGED << drv, unconfirmed, delivered >>
    /\ UNCHANGED << dev, closeCalls, panicked, crashed >>
    /\ lastCb' = NoCb

StartTx ==
    /\ AppRuns
    /\ dev.state = "owned"
    /\ Len(starts) < MaxStarts
    /\ LET k == Len(starts) + 1
           ctx == ThinCtx(k)
       IN \E s \in StartStatus :
            /\ starts' = Append(starts, NewThin(k))
            /\ lastOp' = [ op |-> "start_tx", arg |-> 0,
                           calls |-> << Call("hackrf_start_tx", k, s) >>,
                           result |-> unit_result(s) ]
            /\ IF s = HACKRF_SUCCESS
               THEN /\ drv' = [drv EXCEPT !.mode = "tx", !.stopping = FALSE,
                                          !.tx_ctx = ctx]
                    /\ unconfirmed' = TRUE
                    /\ delivered' = 0
               ELSE UNCHANGED << drv, unconfirmed, delivered >>
    /\ UNCHANGED << dev, closeCalls, panicked, crashed >>
    /\ lastCb' = NoCb

\* stop_rx / stop_tx: a request; the driver winds down afterwards.
Stop(op, fn) ==
    /\ AppRuns
    /\ dev.state = "owned"
    /\ \E s \in CallStatus :
         /\ lastOp' = [ op |-> op, arg |-> 0, calls |-> << Call(fn, dev.ptr, s) >>,
                        result |-> unit_result(s) ]
         /\ drv' = IF s = HACKRF_SUCCESS /\ drv.mode # "idle"
                   THEN [drv EXCEPT !.stopping = TRUE]
                   ELSE drv
    /\ UNCHANGED << dev, closeCalls, panicked, crashed, starts, unconfirmed, delivered >>
    /\ lastCb' = NoCb

StopRx == Stop("stop_rx", "hackrf_stop_rx")

StopTx == Stop("stop_tx", "hackrf_stop_tx")

\* The driver finishes winding a stream down.
DriverCease ==
    /\ ~crashed
    /\ drv.mode # "idle"
    /\ drv.stopping
    /\ drv' = [drv EXCEPT !.mode = "idle", !.stopping = FALSE]
    /\ UNCHANGED << dev, closeCalls, panicked, crashed, starts, unconfirmed, delivered >>
    /\ lastCb' = NoCb
    /\ lastOp' = NoOp

\* is_streaming without HACKRF_ERROR_STREAMING_EXIT_CALLED in the second arm.
is_streaming_stopped_only(status) ==
    IF status = HACKRF_TRUE THEN Ok("true")
    ELSE IF status = HACKRF_ERROR_STREAMING_STOPPED THEN Ok("false")
    ELSE Err(status)

\* The match of is_streaming on the native status.
is_streaming(status) ==
    IF status = HACKRF_TRUE THEN Ok("true")
    ELSE IF status \in { HACKRF_ERROR_STREAMING_STOPPED,
                         HACKRF_ERROR_STREAMING_EXIT_CALLED } THEN Ok("false")
    ELSE Err(status)

\* What hackrf_is_streaming can answer in the driver's present state.
StreamingStatus ==
    { s \in AllStatus :
        /\ s = HACKRF_TRUE => drv.mode # "idle"
        /\ s \in { HACKRF_ERROR_STREAMING_STOPPED,
                   HACKRF_ERROR_STREAMING_EXIT_CALLED }
             => (drv.mode = "idle" \/ drv.stopping) }

IsStreaming ==
    /\ AppRuns
    /\ dev.state = "owned"
    /\ \E s \in StreamingStatus :
         /\ lastOp' = [ op |-> "is_streaming", arg |-> 0,
                        calls |-> << Call("hackrf_is_streaming", dev.ptr, s) >>,
                        result |-> is_streaming(s) ]
         /\ unconfirmed' = IF s # HACKRF_TRUE /\ drv.mode = "idle"
                           THEN FALSE
                           ELSE unconfirmed
    /\ UNCHANGED << dev, closeCalls, panicked, crashed, drv, starts, delivered >>
    /\ lastCb' = NoCb

\* The application scope holding the closure of start number k ends: nothing
\* in the signature of start_rx / start_tx keeps the borrow past the call.
EndClosureScope(k) ==
    /\ ~crashed
    /\ starts[k].live
    /\ starts' = [starts EXCEPT ![k].live = FALSE]
    /\ UNCHANGED << dev, closeCalls, panicked, crashed, drv, unconfirmed, delivered >>
    /\ lastCb' = NoCb
    /\ lastOp' = NoOp

\* ----------------------------------------------------------- trampolines
\* rx_cb bounding the view by valid_length instead of buffer_length.
rx_view_valid_length(transfer) == transfer.valid_length

\* rx_cb: slice::from_raw_parts(data.buffer, data.buffer_length as usize).
\* The driver's buffer lengths are positive, where `as usize` keeps the value.
rx_view(transfer) == transfer.buffer_length

\* tx_cb: slice::from_mut(&mut *data.buffer), a slice of one element.
tx_view(transfer) == 1

\* The context slot each trampoline transmutes into its closure pointer.
rx_token(transfer) == transfer.rx_ctx

tx_token(transfer) == transfer.rx_ctx

\* The match on the closure's bool.
rx_ret(b) == IF b THEN 0 ELSE 1

\* tx_cb with the two arms of the match exchanged.
tx_ret_exchanged(b) == IF b THEN 1 ELSE 0

tx_ret(b) == IF b THEN 0 ELSE 1

\* Both trampolines read the token as a pointer to a `&mut dyn FnMut` and call
\* through it.  That reaches a closure only when the token points at a leaked
\* Box; the closure behind it is "valid" while the application still holds it
\* and "dangling" afterwards.  Any other token is a "wild" pointer.
Resolve(tok) ==
    IF tok.rep = "box"
    THEN IF starts[tok.id].live THEN "valid" ELSE "dangling"
    ELSE "wild"

CbRecord(kind, transfer, view, tok, calls, b, code) ==
    [ kind |-> kind, bufLen |-> transfer.buffer_length, view |-> view,
      ctx |-> tok, target |-> IF calls > 0 THEN tok.id ELSE 0, calls |-> calls,
      ret |-> b, code |-> code,
      ub |-> IF Resolve(tok) = "valid" THEN "none" ELSE Resolve(tok) ]

\* One driver invocation of a trampoline.  With a valid closure it is called
\* once and its bool mapped to the return code.  Through a dangling or wild
\* pointer the behaviour is undefined: the call may still run the closure's
\* code on dead storage (dangling only), return an arbitrary code without
\* running any closure, or kill the process.
Trampoline(kind, transfer, view, tok) ==
    /\ delivered' = delivered + 1
    /\ \/ /\ Resolve(tok) \in {"valid", "dangling"}
          /\ \E b \in BOOLEAN :
               LET code == IF kind = "rx" THEN rx_ret(b) ELSE tx_ret(b) IN
               /\ lastCb' = CbRecord(kind, transfer, view, tok, 1, b, code)
               /\ drv' = [drv EXCEPT !.stopping = @ \/ code # 0]
          /\ UNCHANGED crashed
       \/ /\ Resolve(tok) # "valid"
          /\ \E code \in {0, 1} :
               /\ lastCb' = CbRecord(kind, transfer, view, tok, 0, FALSE, code)
               /\ drv' = [drv EXCEPT !.stopping = @ \/ code # 0]
          /\ UNCHANGED crashed
       \/ /\ Resolve(tok) # "valid"
          /\ crashed' = TRUE
          /\ lastCb' = CbRecord(kind, transfer, view, tok, 0, FALSE, 1)
          /\ UNCHANGED drv
    /\ UNCHANGED << dev, closeCalls, panicked, starts, unconfirmed >>
    /\ lastOp' = NoOp

\* The driver thread calls rx_cb while a receive stream has not ceased.
RxCb ==
    /\ ~crashed
    /\ drv.mode = "rx"
    /\ delivered < MaxCalls
    /\ \E len \in BufLens, vlen \in BufLens :
         /\ vlen <= len
         /\ LET t == Transfer(len, vlen) IN
            Trampoline("rx", t, rx_view(t), rx_token(t))

\* The driver thread calls tx_cb while a transmit stream has not ceased.
TxCb ==
    /\ ~crashed
    /\ drv.mode = "tx"
    /\ delivered < MaxCalls
    /\ \E len \in BufLens, vlen \in BufLens :
         /\ vlen <= len
         /\ LET t == Transfer(len, vlen) IN
            Trampoline("tx", t, tx_view(t), tx_token(t))

\* ---------------------------------------------------------- gain setters
\* The assert! that opens each gain setter.
lna_assert_txvga_limit(gain) == gain <= TxvgaMax

lna_assert(gain) == gain <= LnaMax

vga_assert(gain) == gain <= VgaMax

txvga_assert(gain) == gain <= TxvgaMax

\* assert!(..); then the native setter and the usual match on its status.
SetGain(op, fn, gain, passes) ==
    /\ AppRuns
    /\ dev.state = "owned"
    /\ IF passes
       THEN /\ \E s \in CallStatus :
                 lastOp' = [ op |-> op, arg |-> gain,
                             calls |-> << Call(fn, gain, s) >>,
                             result |-> unit_result(s) ]
            /\ UNCHANGED panicked
       ELSE /\ lastOp' = [ op |-> op, arg |-> gain, calls |-> << >>,
                         result |-> Panic ]
            /\ panicked' = TRUE
    /\ UNCHANGED << dev, closeCalls, crashed, drv, starts, unconfirmed, delivered >>
    /\ lastCb' = NoCb

SetLnaGain ==
    \E g \in GainInputs(LnaMax) :
        SetGain("set_lna_gain", "hackrf_set_lna_gain", g, lna_assert(g))

SetVgaGain ==
    \E g \in GainInputs(VgaMax) :
        SetGain("set_vga_gain", "hackrf_set_vga_gain", g, vga_assert(g))

SetTxvgaGain ==
    \E g \in GainInputs(TxvgaMax) :
        SetGain("set_txvga_gain", "hackrf_set_txvga_gain", g, txvga_assert(g))

\* ------------------------------------------------------ specification
Next ==
    \/ Open
    \/ Close
    \/ DropHandle
    \/ StartRx
    \/ StartTx
    \/ StopRx
    \/ StopTx
    \/ DriverCease
    \/ IsStreaming
    \/ \E k \in 1..Len(starts) : EndClosureScope(k)
    \/ RxCb
    \/ TxCb
    \/ SetLnaGain
    \/ SetVgaGain
    \/ SetTxvgaGain

Spec == Init /\ [][Next]_vars

\* ------------------------------------------------------------ properties
\* A native status that reports a failure of the call: any non-success code,
\* except that hackrf_is_streaming also answers HACKRF_TRUE and the two
\* informational "stopped" codes.
Failure(c) ==
    IF c.fn = "hackrf_is_streaming"
    THEN c.status \notin { HACKRF_SUCCESS, HACKRF_TRUE,
                           HACKRF_ERROR_STREAMING_STOPPED,
                           HACKRF_ERROR_STREAMING_EXIT_CALLED }
    ELSE c.status # HACKRF_SUCCESS

\* Leaked Boxes that are still allocated.
LiveRegistrations == { k \in 1..Len(starts) : starts[k].boxed }

\* C1: a handle produced by a successful open() has seen no native close call
\* while the application owns it and exactly one once it is released, whether
\* by close() or by the end of its scope.
C1_ClosedExactlyOnce ==
    /\ dev.state = "owned" => closeCalls = 0
    /\ dev.state = "gone" => closeCalls = 1

\* C2: every driver invocation of rx_cb made while the application still holds
\* the closure given to start_rx calls exactly that closure, exactly once, with
\* a view whose length is the invocation's buffer_length; so N invocations are
\* N calls of the closure, one per invocation and in the driver's order.
C2_RxForwardsEveryInvocation ==
    (lastCb.kind = "rx" /\ lastCb.ub = "none") =>
        /\ lastCb.calls = 1
        /\ lastCb.target = drv.rx_ctx.id
        /\ starts[lastCb.target].kind = "rx"
        /\ lastCb.view = lastCb.bufLen

\* The second invocation of a receive stream, with the longer buffer, on which
\* the closure answers stop.
C2_Witness ==
    /\ lastCb.kind = "rx"
    /\ lastCb.ub = "none"
    /\ delivered = 2
    /\ lastCb.bufLen = 2
    /\ ~lastCb.ret

\* C3: whenever a trampoline, receive or transmit, has called a closure, its
\* return code is 0 exactly when the closure returned true, and non-zero when
\* it returned false.
C3_ReturnCodeFollowsClosure ==
    (lastCb.kind \in {"rx", "tx"} /\ lastCb.calls = 1) =>
        /\ lastCb.code = 0 <=> lastCb.ret
        /\ ~lastCb.ret => lastCb.code # 0

\* A transmit invocation whose closure answered stop.
C3_Witness ==
    /\ lastCb.kind = "tx"
    /\ lastCb.calls = 1
    /\ ~lastCb.ret
    /\ lastCb.code = 1

\* C4: is_streaming gives Ok(true) on HACKRF_TRUE, Ok(false) on -1003 and on
\* -1004, and an error carrying the native code on every other status that is
\* neither success nor true.
C4_IsStreamingResult ==
    lastOp.op = "is_streaming" =>
        LET s == lastOp.calls[1].status IN
        /\ s = 1 => lastOp.result = Ok("true")
        /\ s \in {-1003, -1004} => lastOp.result = Ok("false")
        /\ s \notin {0, 1, -1003, -1004} =>
             /\ lastOp.result.tag = "Err"
             /\ lastOp.result.error.errno = s

\* is_streaming answered "streaming exit called" and the result is a clean false.
C4_Witness ==
    /\ lastOp.op = "is_streaming"
    /\ lastOp.calls[1].status = -1004
    /\ lastOp.result = Ok("false")

\* C5: a gain above the documented maximum (LNA 40, VGA 62, TXVGA 47) halts
\* the call and reaches no native call, neither as given nor clamped.
C5_GainAboveMaxRejected ==
    LET max == [ set_lna_gain |-> 40, set_vga_gain |-> 62,
                 set_txvga_gain |-> 47 ]
    IN  (lastOp.op \in DOMAIN max /\ lastOp.arg > max[lastOp.op]) =>
            /\ lastOp.result = Panic
            /\ lastOp.calls = << >>

\* set_lna_gain was called with 41.
C5_Witness ==
    /\ lastOp.op = "set_lna_gain"
    /\ lastOp.arg = 41
    /\ panicked

\* C6: every native call of an operation that reported a failure code c gave
\* the application an error whose numeric code is c.
C6_EveryFailureReported ==
    \A i \in 1..Len(lastOp.calls) :
        Failure(lastOp.calls[i]) =>
            /\ lastOp.result.tag = "Err"
            /\ lastOp.result.error.errno = lastOp.calls[i].status

\* C7: on every invocation of tx_cb the view handed to the closure covers
\* exactly buffer_length bytes.
C7_TxViewCoversBuffer ==
    lastCb.kind = "tx" => lastCb.view = lastCb.bufLen

\* C8: no trampoline invocation goes through a closure the application has
\* already released.
C8_ClosureValidWhenInvoked ==
    lastCb.kind \in {"rx", "tx"} => lastCb.ub # "dangling"

\* C9: every invocation of tx_cb reads the token start_tx handed to the driver
\* as the transmit context, and calls the closure of that start_tx.
C9_TxUsesTransmitContext ==
    lastCb.kind = "tx" =>
        /\ lastCb.ctx = drv.tx_ctx
        /\ lastCb.target = drv.tx_ctx.id

\* C10: a start_rx that returned an error has released its registration, and
\* the live registrations never outnumber the streams started and not yet
\* confirmed ceased.
C10_NoRegistrationOutlivesStream ==
    /\ (lastOp.op = "start_rx" /\ lastOp.result.tag = "Err") =>
           Len(starts) \notin LiveRegistrations
    /\ Cardinality(LiveRegistrations) <= IF unconfirmed THEN 1 ELSE 0

====
